---- MODULE Spec2Model ----
(***************************************************************************)
(* Model of the /ask answer-resolution pipeline of lumina-backend.         *)
(*   src/app.py  : crawl -> primary Gemini call -> Wikipedia -> DuckDuckGo *)
(*   src/main.py : the older handler, a single grounded Gemini call        *)
(* One request is followed from its arrival to its response.  Texts are    *)
(* TLA+ strings, so slicing, concatenation and lengths are the real ones.  *)
(***************************************************************************)
EXTENDS Integers, Sequences, FiniteSets, TLC

VARIABLES
    handler,            \* "app" (src/app.py) or "main" (src/main.py)
    gemini_api_key,     \* os.getenv("GEMINI_API_KEY"); "" when absent
    use_web_search,     \* data.get("useWebSearch", False)
    history,            \* data.get("history"): sequence of [role, content]
    pc,                 \* position of the request in its handler
    last_user_msg,      \* app.py:140
    found_url,          \* app.py:141
    crawled_text,       \* app.py:145
    context_injection,  \* app.py:143-146
    result,             \* the primary provider's reply (app.py:167, main.py:72)
    primary,            \* "none" | "success" (returned inside try) | "failure" (except entered)
    sources,            \* the citation list collected before deduplication
    wiki_ans, wiki_src, \* app.py:201
    ddg_ans, ddg_src,   \* app.py:204
    crawl_reply,        \* how the fetch of crawl_specific_url ended: "none" | "ok" | "error" | "hang"
    wiki_exit,          \* where search_wikipedia_and_summarize ended ("none": not yet)
    ddg_reply,          \* the reply duckduckgo_search received
    calls,              \* log of the outbound HTTP calls issued, in order
    stages,             \* log of the stages entered, in order
    response            \* the HTTP response of the request

vars == <<handler, gemini_api_key, use_web_search, history, pc, last_user_msg,
          found_url, crawled_text, context_injection, result, primary, sources,
          wiki_ans, wiki_src, ddg_ans, ddg_src, crawl_reply, wiki_exit, ddg_reply,
          calls, stages, response>>

-----------------------------------------------------------------------------
(* Bounds of the model *)

MaxHist  == 2      \* messages in a history
MaxCites == 3      \* grounding chunks + grounding attributions of a candidate
MaxOver  == 1      \* page texts reach CrawlCap + MaxOver characters
MaxTopics == 2     \* RelatedTopics entries of a DuckDuckGo reply

(* Program constants *)

CrawlCap      == 8000    \* text[:8000]
CrawlTimeout  == 10      \* requests.get(url, ..., timeout=10)
DdgTimeout    == 10      \* requests.get(url, ..., timeout=10)
NoTimeout     == 0       \* a requests call made without the timeout argument
WikiLimit     == 3       \* "srlimit": 3

\* Python's None in a text-valued place.
None == "<None>"

\* Python truthiness of an optional text.
Truthy(s) == s # None /\ s # ""

Min(S) == CHOOSE m \in S : \A k \in S : m <= k

\* s repeated n times.
Rep(s, n) ==
    LET RECURSIVE R(_)
        R(k) == IF k = 0 THEN ""
                ELSE LET h == R(k \div 2)
                     IN  IF k % 2 = 1 THEN h \o h \o s ELSE h \o h
    IN  R(n)

\* Python slice text[:n].
Prefix(text, n) == IF Len(text) <= n THEN text ELSE SubSeq(text, 1, n)

-----------------------------------------------------------------------------
(* extract_url: re.search of                                               *)
(*   http[s]?://(?:[a-zA-Z]|[0-9]|[$-_@.&+]|[!*\\(\\),]|(?:%XX))+           *)
(* The class [$-_@.&+] holds the range '$'..'_' (ASCII 36..95).            *)

UrlChars ==
    { "a","b","c","d","e","f","g","h","i","j","k","l","m",
      "n","o","p","q","r","s","t","u","v","w","x","y","z",
      "A","B","C","D","E","F","G","H","I","J","K","L","M",
      "N","O","P","Q","R","S","T","U","V","W","X","Y","Z",
      "0","1","2","3","4","5","6","7","8","9",
      "$","%","&","'","(",")","*","+",",","-",".","/",
      ":",";","<","=",">","?","@","[","\\","]","^","_","!" }

CharAt(text, i) == SubSeq(text, i, i)

StartsAt(text, i, p) ==
    /\ i + Len(p) - 1 <= Len(text)
    /\ SubSeq(text, i, i + Len(p) - 1) = p

\* Length of the scheme matched at position i, 0 when none.
SchemeLen(text, i) ==
    IF StartsAt(text, i, "https://") THEN 8
    ELSE IF StartsAt(text, i, "http://") THEN 7
    ELSE 0

MatchesAt(text, i) ==
    LET n == SchemeLen(text, i)
    IN  /\ n > 0
        /\ i + n <= Len(text)
        /\ CharAt(text, i + n) \in UrlChars

extract_url(text) ==
    LET starts == { i \in 1..Len(text) : MatchesAt(text, i) }
    IN  IF starts = {} THEN None
        ELSE LET i    == Min(starts)
                 b    == i + SchemeLen(text, i)
                 ends == { j \in b..(Len(text) + 1) :
                              j = Len(text) + 1 \/ CharAt(text, j) \notin UrlChars }
             IN  SubSeq(text, i, Min(ends) - 1)

\* next((m["content"] for m in reversed(history) if m["role"] == "user"), "")
LastMsgOfAnyRole(h) == IF h = <<>> THEN "" ELSE h[Len(h)].content

LastUserMsg(h) ==
    LET idx == { i \in 1..Len(h) : h[i].role = "user" }
    IN  IF idx = {} THEN ""
        ELSE h[CHOOSE i \in idx : \A k \in idx : k <= i].content

-----------------------------------------------------------------------------
(* crawl_specific_url *)

PageTexts == { "Some page text" } \cup
             { Rep("x", CrawlCap + k) : k \in 0..MaxOver }

CrawlErrors == { "404 Client Error: Not Found" }

CrawlReplies ==
    { [kind |-> "ok", text |-> t] : t \in PageTexts } \cup
    { [kind |-> "error", msg |-> m] : m \in CrawlErrors } \cup
    { [kind |-> "hang"] }

CrawlErrorTextWithoutUrl(url, msg) == "Error crawling: " \o msg

\* app.py:47
CrawlErrorText(url, msg) == "Error crawling " \o url \o ": " \o msg

\* The value crawl_specific_url returns for one reply of the remote site.
\* The GET carries timeout=10, so a peer that never replies ends as a
\* Timeout exception, caught like every other one.
crawl_specific_url(url, reply) ==
    IF reply.kind = "ok" THEN Prefix(reply.text, CrawlCap)
    ELSE IF reply.kind = "hang" THEN CrawlErrorText(url, "Read timed out.")
    ELSE CrawlErrorText(url, reply.msg)

\* app.py:146
ContextInjection(url, text) ==
    "\n\nCONTEXT FROM LINK (" \o url \o "):\n" \o text \o "\n\n(User asked about this link.)"

-----------------------------------------------------------------------------
(* Requests *)

LongUrl == "http://" \o Rep("a", CrawlCap)

LongMessage == "open " \o LongUrl \o " or http://a.io/x"

Messages ==
    { [role |-> "user",      content |-> "hi"],
      [role |-> "user",      content |-> "see http://a.io/x now"],
      [role |-> "assistant", content |-> "try https://b.io, please"] }

RECURSIVE SeqsUpTo(_, _)
SeqsUpTo(S, n) ==
    IF n = 0 THEN { <<>> }
    ELSE LET shorter == SeqsUpTo(S, n - 1)
         IN  shorter \cup { Append(s, x) : s \in { t \in shorter : Len(t) = n - 1 }, x \in S }

Histories == SeqsUpTo(Messages, MaxHist) \cup
             { <<[role |-> "user", content |-> LongMessage]>> }

\* One outbound HTTP call: what is asked (arg), whether the google_search
\* tool is requested, and the timeout passed to requests (NoTimeout: none).
Call(kind, arg, tools, timeout) ==
    [kind |-> kind, arg |-> arg, tools |-> tools, timeout |-> timeout]

\* A reply of the generative provider, as far as the handlers read it.
Reply(kind, hasCandidates, candidates) ==
    [kind |-> kind, hasCandidates |-> hasCandidates, candidates |-> candidates]

\* A reply of the instant-answer API, as far as duckduckgo_search reads it.
DdgReply(kind, abstract, abstractURL, heading, related) ==
    [kind |-> kind, abstract |-> abstract, abstractURL |-> abstractURL,
     heading |-> heading, related |-> related]

NoDdgReply == DdgReply("none", "", "", "", <<>>)

NoResponse == [status |-> 0, body |-> [pending |-> TRUE]]

Init ==
    /\ handler \in {"app", "main"}
    /\ gemini_api_key \in {"", "KEY"}
    /\ use_web_search \in BOOLEAN
    /\ history \in Histories
    /\ pc = "start"
    /\ last_user_msg = ""
    /\ found_url = None
    /\ crawled_text = None
    /\ context_injection = ""
    /\ result = Reply("none", FALSE, <<>>)
    /\ primary = "none"
    /\ sources = <<>>
    /\ wiki_ans = None /\ wiki_src = <<>>
    /\ ddg_ans = None /\ ddg_src = <<>>
    /\ crawl_reply = "none"
    /\ wiki_exit = "none"
    /\ ddg_reply = NoDdgReply
    /\ calls = <<>>
    /\ stages = <<>>
    /\ response = NoResponse

Respond(status, body) ==
    /\ response' = [status |-> status, body |-> body]
    /\ pc' = "done"

\* jsonify({"error": ...}), 500 of app.py:119
AppMissingKey == [error |-> "Server missing API Key"]

\* app.py:113-146 up to the decision to crawl.
AppStart ==
    /\ handler = "app" /\ pc = "start"
    /\ IF ~Truthy(gemini_api_key)
       THEN /\ Respond(500, AppMissingKey)
            /\ UNCHANGED <<last_user_msg, found_url>>
       ELSE /\ last_user_msg' = LastUserMsg(history)
            /\ found_url' = extract_url(LastUserMsg(history))
            /\ pc' = IF Truthy(extract_url(LastUserMsg(history))) THEN "crawl" ELSE "primary"
            /\ UNCHANGED response
    /\ UNCHANGED <<handler, gemini_api_key, use_web_search, history, crawled_text,
                   context_injection, result, primary, sources, wiki_ans, wiki_src,
                   ddg_ans, ddg_src, crawl_reply, wiki_exit, ddg_reply, calls, stages>>

\* app.py:144-146 with crawl_specific_url (app.py:34-47).
Crawl ==
    /\ handler = "app" /\ pc = "crawl"
    /\ \E reply \in CrawlReplies :
          /\ crawl_reply' = reply.kind
          /\ crawled_text' = crawl_specific_url(found_url, reply)
          /\ context_injection' = ContextInjection(found_url, crawl_specific_url(found_url, reply))
    /\ calls' = Append(calls, Call("crawl", found_url, FALSE, CrawlTimeout))
    /\ stages' = Append(stages, "crawl")
    /\ pc' = "primary"
    /\ UNCHANGED <<handler, gemini_api_key, use_web_search, history, last_user_msg,
                   found_url, result, primary, sources, wiki_ans, wiki_src,
                   ddg_ans, ddg_src, wiki_exit, ddg_reply, response>>

-----------------------------------------------------------------------------
(* The primary Gemini call *)

\* Stand-ins for the long literal texts of app.py:122-138, 152-156 and 186.
BasePersona == "You are Lumina, an energetic, humble, and cheerful personal AI assistant."
SearchBlock == "\n\nWEB SEARCH ACTIVE\n- Search specifically for the entities mentioned."
MemoryBlock == "\n\nMEMORY MODE\nAnswer from internal knowledge. Be humble if you don't know."

\* app.py:152-156 and app.py:186
SystemInstructionModeFirst(search, injection) ==
    BasePersona \o (IF search THEN SearchBlock ELSE MemoryBlock) \o injection

SystemInstruction(search, injection) ==
    BasePersona \o injection \o (IF search THEN SearchBlock ELSE MemoryBlock)

\* The "web" part of a grounding chunk or attribution; "" is a missing or
\* empty field (both are falsy for the filters of the handlers).
GroundingItems ==
    { [uri |-> "u1", title |-> "A"], [uri |-> "u1", title |-> "B"],
      [uri |-> "u2", title |-> "A"], [uri |-> "u1", title |-> ""],
      [uri |-> "",   title |-> "A"] }

Groundings ==
    UNION { { [chunks |-> SubSeq(s, 1, k), attributions |-> SubSeq(s, k + 1, Len(s))] :
                k \in 0..Len(s) } : s \in SeqsUpTo(GroundingItems, MaxCites) }

Candidate(reason, text, g) ==
    [finishReason |-> reason, text |-> text,
     chunks |-> g.chunks, attributions |-> g.attributions]

\* text = None: the candidate has no content / parts / text.
GroundedCandidates ==
    { Candidate("STOP", "Provider answer", g) : g \in Groundings }

OtherCandidates ==
    { Candidate(r, t, [chunks |-> c, attributions |-> <<>>]) :
        r \in {"STOP", "RECITATION"}, t \in {None, "", "Provider answer"},
        c \in { <<[uri |-> "u1", title |-> "A"]>> } }

MoreCandidates ==
    { <<>>, <<Candidate("STOP", "Second answer", [chunks |-> <<>>, attributions |-> <<>>])>> }

\* What the provider may do with the call: no reply at all ("hang"), a
\* connection error, a non-2xx status, a body that is not JSON, or a JSON
\* body with or without the "candidates" key.
PrimaryReplies ==
    { Reply(k, FALSE, <<>>) : k \in {"hang", "transport", "http_error", "badjson"} } \cup
    { Reply("json", b, <<>>) : b \in BOOLEAN } \cup
    { Reply("json", TRUE, <<c>>) : c \in GroundedCandidates } \cup
    { Reply("json", TRUE, <<c>>) : c \in OtherCandidates } \cup
    { Reply("json", TRUE, <<c>> \o m) :
        c \in { o \in OtherCandidates : o.text = "Provider answer" }, m \in MoreCandidates }

\* Whether the payload carries "tools": [{"google_search": {}}]
\* (app.py:158-162 with it, app.py:187-190 without).
GroundingToolAlways(search) == TRUE
GroundingTool(search) == search

\* app.py:177 and main.py:84
KeptByApp(web)  == Truthy(web.uri) /\ Truthy(web.title)
KeptByMain(web) == Truthy(web.uri)

\* app.py:173-178
CollectApp(candidate) ==
    SelectSeq(candidate.chunks \o candidate.attributions, KeptByApp)

\* main.py:79-85
CollectMain(candidate) ==
    SelectSeq(candidate.attributions, KeptByMain)

\* d[v['uri']] = v on an insertion-ordered dict, kept as the sequence of its values.
DictPutMoveToEnd(d, v) ==
    SelectSeq(d, LAMBDA e : e.uri # v.uri) \o <<v>>

DictPut(d, v) ==
    IF \E i \in 1..Len(d) : d[i].uri = v.uri
    THEN [i \in 1..Len(d) |-> IF d[i].uri = v.uri THEN v ELSE d[i]]
    ELSE Append(d, v)

\* list({v['uri']: v for v in sources}.values())   app.py:179, main.py:88
RECURSIVE UniqueSources(_)
UniqueSources(srcs) ==
    IF srcs = <<>> THEN <<>>
    ELSE DictPut(UniqueSources(SubSeq(srcs, 1, Len(srcs) - 1)), srcs[Len(srcs)])

\* The try block of app.py:165-181 reaches its return.
SearchSucceedsNonEmptyText(reply) ==
    /\ reply.kind = "json"
    /\ reply.hasCandidates
    /\ Len(reply.candidates) >= 1
    /\ reply.candidates[1].finishReason # "RECITATION"
    /\ Truthy(reply.candidates[1].text)

SearchSucceeds(reply) ==
    /\ reply.kind = "json"
    /\ reply.hasCandidates
    /\ Len(reply.candidates) >= 1
    /\ reply.candidates[1].finishReason # "RECITATION"
    /\ reply.candidates[1].text # None

\* The try block of app.py:192-195 reaches its return.
MemorySucceeds(reply) ==
    /\ reply.kind = "json"
    /\ reply.hasCandidates
    /\ Len(reply.candidates) >= 1
    /\ reply.candidates[1].text # None

\* jsonify({"answer": ..., "sources": ...})
AnswerWithEarlierSources(text, srcs) == [answer |-> text, sources |-> wiki_src \o srcs]

Answer(text, srcs) == [answer |-> text, sources |-> srcs]

\* app.py:207 and app.py:209
WrongCannedReply ==
    Answer("I'm having a little trouble connecting right now. Mind trying again?", <<>>)
HonestFailure ==
    Answer("I tried searching but couldn't find a confident answer. I'd rather be honest than guess wrong! Could you clarify?", <<>>)
Apology ==
    Answer("I'm having a little trouble connecting right now. Mind trying again?", <<>>)

\* app.py:200  "if use_web_search:" inside the except block
FallbackAlways(search) == TRUE
FallbackEnabled(search) == search

\* app.py:197-209: the except block up to the first fallback call.
PrimaryExcept ==
    /\ primary' = "failure"
    /\ sources' = <<>>
    /\ IF FallbackEnabled(use_web_search)
       THEN pc' = "wiki" /\ UNCHANGED response
       ELSE Respond(200, Apology)

\* The call blocks for ever: requests.post without a timeout never returns.
Blocked ==
    /\ pc' = "blocked"
    /\ UNCHANGED <<primary, sources, response>>

\* app.py:151-183
AppPrimarySearch ==
    /\ handler = "app" /\ pc = "primary" /\ use_web_search
    /\ calls' = Append(calls, Call("gemini", SystemInstruction(TRUE, context_injection), GroundingTool(TRUE), NoTimeout))
    /\ stages' = Append(stages, "primary")
    /\ \E reply \in PrimaryReplies :
          /\ result' = reply
          /\ IF reply.kind = "hang" THEN Blocked
             ELSE IF SearchSucceeds(reply)
             THEN /\ primary' = "success"
                  /\ sources' = CollectApp(reply.candidates[1])
                  /\ Respond(200, Answer(reply.candidates[1].text,
                                         UniqueSources(CollectApp(reply.candidates[1]))))
             ELSE PrimaryExcept
    /\ UNCHANGED <<handler, gemini_api_key, use_web_search, history, last_user_msg,
                   found_url, crawled_text, context_injection, wiki_ans, wiki_src,
                   ddg_ans, ddg_src, crawl_reply, wiki_exit, ddg_reply>>

\* app.py:185-195
AppPrimaryMemory ==
    /\ handler = "app" /\ pc = "primary" /\ ~use_web_search
    /\ calls' = Append(calls, Call("gemini", SystemInstruction(FALSE, context_injection), GroundingTool(FALSE), NoTimeout))
    /\ stages' = Append(stages, "primary")
    /\ \E reply \in PrimaryReplies :
          /\ result' = reply
          /\ IF reply.kind = "hang" THEN Blocked
             ELSE IF MemorySucceeds(reply)
             THEN /\ primary' = "success"
                  /\ sources' = <<>>
                  /\ Respond(200, Answer(reply.candidates[1].text, <<>>))
             ELSE PrimaryExcept
    /\ UNCHANGED <<handler, gemini_api_key, use_web_search, history, last_user_msg,
                   found_url, crawled_text, context_injection, wiki_ans, wiki_src,
                   ddg_ans, ddg_src, crawl_reply, wiki_exit, ddg_reply>>

-----------------------------------------------------------------------------
(* Fallback 1: search_wikipedia_and_summarize *)

Titles   == <<"Alpha", "Beta", "Gamma">>
PageUrls == { "", "https://en.wikipedia.org/wiki/Alpha" }   \* "": no content_urls
Extract  == "An extract."

\* What Wikipedia and the provider do during one run of the function:
\*   search : "hang" | "error" | "ok"            the search call
\*   n      : number of search results (srlimit is honoured)
\*   pages  : page url of every summary call that was answered
\*   fail   : "none", or how the summary call after those ended ("hang" | "error")
\*   synth  : "none" | "hang" | "error" | "empty" | "answer"   the synthesis call
WikiRun(search, n, pages, fail, synth) ==
    [search |-> search, n |-> n, pages |-> pages, fail |-> fail, synth |-> synth]

WikiReplies ==
    { WikiRun(s, 0, <<>>, "none", "none") : s \in {"hang", "error", "ok"} } \cup
    UNION { UNION {
        { WikiRun("ok", n, p, f, "none") :
            p \in [1..k -> PageUrls], f \in IF k < n THEN {"hang", "error"} ELSE {} } \cup
        { WikiRun("ok", n, p, "none", y) :
            p \in [1..k -> PageUrls],
            y \in IF k = n THEN {"hang", "error", "empty", "answer"} ELSE {} }
        : k \in 0..n } : n \in 1..WikiLimit }

\* app.py:66-74, the loop over the search results
WikiSources(w) ==
    [i \in 1..Len(w.pages) |-> [title |-> "Wikipedia: " \o Titles[i], uri |-> w.pages[i]]]

RECURSIVE WikiContext(_)
WikiContext(k) ==
    IF k = 0 THEN "Here is information gathered from Wikipedia:\n\n"
    ELSE WikiContext(k - 1) \o "--- TITLE: " \o Titles[k] \o " ---\n" \o Extract \o "\n\n"

\* app.py:77
WikiPrompt(query, k) ==
    "Using ONLY this Wikipedia context, answer: '" \o query \o "'.\nCONTEXT:\n" \o WikiContext(k)

\* The outbound calls of one run, in order; none carries a timeout.
WikiCallsSearchingTwice(query, w) ==
    LET asked == Len(w.pages) + (IF w.fail = "none" THEN 0 ELSE 1)
    IN  <<Call("wiki_search", query, FALSE, NoTimeout),
          Call("wiki_search", query, FALSE, NoTimeout)>> \o
        [i \in 1..asked |-> Call("wiki_summary", Titles[i], FALSE, NoTimeout)] \o
        (IF w.synth = "none" THEN <<>>
         ELSE <<Call("wiki_gemini", WikiPrompt(query, w.n), FALSE, NoTimeout)>>)

WikiCalls(query, w) ==
    LET asked == Len(w.pages) + (IF w.fail = "none" THEN 0 ELSE 1)
    IN  <<Call("wiki_search", query, FALSE, NoTimeout)>> \o
        [i \in 1..asked |-> Call("wiki_summary", Titles[i], FALSE, NoTimeout)] \o
        (IF w.synth = "none" THEN <<>>
         ELSE <<Call("wiki_gemini", WikiPrompt(query, w.n), FALSE, NoTimeout)>>)

WikiBlocked(w) == w.search = "hang" \/ w.fail = "hang" \/ w.synth = "hang"

\* Where the function ends: the return of line 61, the return of line 82, or
\* the except block of lines 83-85, named after the step that raised.
WikiExit(w) ==
    IF w.search = "error" THEN "search_failed"
    ELSE IF w.fail = "error" THEN "summary_failed"
    ELSE IF w.synth = "error" THEN "synthesis_failed"
    ELSE IF w.n = 0 THEN "no_results"
    ELSE "returned"

\* The function returns on line 82 (every other exit returns None, []).
WikiReturnsAnswer(w) == w.synth \in {"empty", "answer"}

\* The pair returned by search_wikipedia_and_summarize.
WikiAnswer(w) ==
    IF w.synth = "answer" THEN "Wikipedia answer"
    ELSE IF w.synth = "empty" THEN ""
    ELSE None

WikiGatheredSources(w) == WikiSources(w)

WikiReturnedSources(w) == IF WikiReturnsAnswer(w) THEN WikiSources(w) ELSE <<>>

\* app.py:202  "if wiki_ans:"
WikiNeverAnswered(ans) == FALSE
WikiAnswered(ans) == Truthy(ans)

\* app.py:201-202
Wiki ==
    /\ handler = "app" /\ pc = "wiki"
    /\ stages' = Append(stages, "wiki")
    /\ \E w \in WikiReplies :
          /\ calls' = calls \o WikiCalls(last_user_msg, w)
          /\ IF WikiBlocked(w)
             THEN pc' = "blocked" /\ UNCHANGED <<wiki_ans, wiki_src, wiki_exit, response>>
             ELSE /\ wiki_exit' = WikiExit(w)
                  /\ wiki_ans' = WikiAnswer(w)
                  /\ wiki_src' = WikiReturnedSources(w)
                  /\ IF WikiAnswered(WikiAnswer(w))
                     THEN Respond(200, Answer(WikiAnswer(w), WikiReturnedSources(w)))
                     ELSE pc' = "ddg" /\ UNCHANGED response
    /\ UNCHANGED <<handler, gemini_api_key, use_web_search, history, last_user_msg,
                   found_url, crawled_text, context_injection, result, primary,
                   sources, ddg_ans, ddg_src, crawl_reply, ddg_reply>>

-----------------------------------------------------------------------------
(* Fallback 2: duckduckgo_search *)

\* A RelatedTopics entry; text = None: the entry has no "Text" key.
Topics == [text : {None, "", "A related topic"}, firstURL : {"https://duckduckgo.com/t"}]

\* The RelatedTopics lists: any first entry, followed by entries with a text.
LaterTopic == [text |-> "Another related topic", firstURL |-> "https://duckduckgo.com/t2"]

RelatedLists ==
    { <<>> } \cup
    { <<t>> \o [i \in 1..k |-> LaterTopic] : t \in Topics, k \in 0..(MaxTopics - 1) }

DdgReplies ==
    { DdgReply(k, "", "", "", <<>>) : k \in {"hang", "error"} } \cup
    { DdgReply("ok", a, "https://duckduckgo.com/a", "Heading", r) :
        a \in {"", "An abstract"}, r \in RelatedLists }

\* app.py:98-102: the related topic stands in for an empty abstract.
DdgUsesTopic(d) ==
    /\ ~Truthy(d.abstract)
    /\ d.related # <<>>
    /\ d.related[1].text # None

DdgAbstract(d) == IF DdgUsesTopic(d) THEN d.related[1].text ELSE d.abstract
DdgSourceUrlOfAbstract(d) == d.abstractURL

DdgSourceUrl(d) == IF DdgUsesTopic(d) THEN d.related[1].firstURL ELSE d.abstractURL

\* The pair returned by duckduckgo_search.  The GET carries timeout=10, so a
\* peer that never replies ends as an exception, caught on line 107.
DdgAnswer(d) ==
    IF d.kind # "ok" \/ ~Truthy(DdgAbstract(d)) THEN None
    ELSE "Here is a summary from DuckDuckGo:\n\n**" \o d.heading \o "**\n" \o DdgAbstract(d)

DdgSources(d) ==
    IF d.kind # "ok" \/ ~Truthy(DdgAbstract(d)) THEN <<>>
    ELSE <<[title |-> "DuckDuckGo: " \o d.heading, uri |-> DdgSourceUrl(d)]>>

\* app.py:205  "if ddg_ans:"
DdgAnswered(ans) == Truthy(ans)

\* app.py:204-207
Ddg ==
    /\ handler = "app" /\ pc = "ddg"
    /\ stages' = Append(stages, "ddg")
    /\ calls' = Append(calls, Call("ddg", last_user_msg, FALSE, DdgTimeout))
    /\ \E d \in DdgReplies :
          /\ ddg_reply' = d
          /\ ddg_ans' = DdgAnswer(d)
          /\ ddg_src' = DdgSources(d)
          /\ IF DdgAnswered(DdgAnswer(d))
             THEN Respond(200, Answer(DdgAnswer(d), DdgSources(d)))
             ELSE Respond(200, HonestFailure)
    /\ UNCHANGED <<handler, gemini_api_key, use_web_search, history, last_user_msg,
                   found_url, crawled_text, context_injection, result, primary,
                   sources, wiki_ans, wiki_src, crawl_reply, wiki_exit>>

-----------------------------------------------------------------------------
(* src/main.py: the /ask handler *)

MainNoHistory  == [error |-> "No conversation history provided"]
MainMissingKey == [error |-> "GEMINI_API_KEY is not configured on the server"]
MainConnect    == [error |-> "Failed to connect to the Gemini API"]
MainParse      == [error |-> "Could not parse the response from the Gemini API"]
MainDefaultAnswer == "Sorry, an error occurred while processing the response."

\* main.py:36-43
MainStart ==
    /\ handler = "main" /\ pc = "start"
    /\ IF history = <<>> THEN Respond(400, MainNoHistory)
       ELSE IF ~Truthy(gemini_api_key) THEN Respond(500, MainMissingKey)
       ELSE pc' = "primary" /\ UNCHANGED response
    /\ UNCHANGED <<handler, gemini_api_key, use_web_search, history, last_user_msg,
                   found_url, crawled_text, context_injection, result, primary,
                   sources, wiki_ans, wiki_src, ddg_ans, ddg_src, crawl_reply,
                   wiki_exit, ddg_reply, calls, stages>>

\* main.py:75-77
MainAnswerText(reply) ==
    IF ~reply.hasCandidates THEN MainDefaultAnswer
    ELSE IF reply.candidates[1].text = None THEN MainDefaultAnswer
    ELSE reply.candidates[1].text

\* main.py:79-85
MainCollected(reply) ==
    IF ~reply.hasCandidates THEN <<>> ELSE CollectMain(reply.candidates[1])

\* main.py:45-95
MainPrimary ==
    /\ handler = "main" /\ pc = "primary"
    /\ calls' = Append(calls, Call("gemini", "You are Lumina, an AI. Never mention Google or Gemini.", TRUE, NoTimeout))
    /\ stages' = Append(stages, "primary")
    /\ \E reply \in PrimaryReplies :
          /\ result' = reply
          /\ IF reply.kind = "hang" THEN Blocked
             ELSE IF reply.kind \in {"transport", "http_error", "badjson"}
             THEN /\ primary' = "failure"
                  /\ sources' = <<>>
                  /\ Respond(500, MainConnect)
             ELSE IF reply.hasCandidates /\ reply.candidates = <<>>
             THEN /\ primary' = "failure"
                  /\ sources' = <<>>
                  /\ Respond(500, MainParse)
             ELSE /\ primary' = "success"
                  /\ sources' = MainCollected(reply)
                  /\ Respond(200, Answer(MainAnswerText(reply), UniqueSources(MainCollected(reply))))
    /\ UNCHANGED <<handler, gemini_api_key, use_web_search, history, last_user_msg,
                   found_url, crawled_text, context_injection, wiki_ans, wiki_src,
                   ddg_ans, ddg_src, crawl_reply, wiki_exit, ddg_reply>>

-----------------------------------------------------------------------------

Next ==
    \/ AppStart
    \/ Crawl
    \/ AppPrimarySearch
    \/ AppPrimaryMemory
    \/ Wiki
    \/ Ddg
    \/ MainStart
    \/ MainPrimary

Spec == Init /\ [][Next]_vars

-----------------------------------------------------------------------------
(* Properties *)

Invoked(stage) == \E i \in DOMAIN stages : stages[i] = stage

FallbackKinds == {"wiki_search", "wiki_summary", "wiki_gemini", "ddg"}

FallbackCalled == \E i \in DOMAIN calls : calls[i].kind \in FallbackKinds

Finished == pc \in {"done", "blocked"}

\* C1: in the pipeline of src/app.py a fallback provider is invoked during a
\* request if and only if the request is in Search mode and the primary call
\* ended in the except block; a Search request whose primary call succeeded
\* never invokes a fallback provider.
C1_FallbackIffSearchAndPrimaryFailure ==
    handler = "app" =>
        /\ (Invoked("wiki") \/ Invoked("ddg") \/ FallbackCalled)
               => (use_web_search /\ primary = "failure")
        /\ (Finished /\ use_web_search /\ primary = "failure")
               => (Invoked("wiki") /\ FallbackCalled)
        /\ (use_web_search /\ primary = "success")
               => (~Invoked("wiki") /\ ~Invoked("ddg") /\ ~FallbackCalled)

C1_Witness ==
    /\ handler = "app" /\ pc = "done" /\ use_web_search
    /\ primary = "failure" /\ Invoked("wiki") /\ FallbackCalled

\* C2: a Memory-mode request of src/app.py never invokes a fallback provider
\* and never asks for the search-grounding tool, whatever the primary call
\* returned.
C2_MemoryModeNoFallbackNoGrounding ==
    (handler = "app" /\ ~use_web_search) =>
        /\ ~Invoked("wiki") /\ ~Invoked("ddg")
        /\ \A i \in DOMAIN calls :
              calls[i].kind \notin FallbackKinds /\ ~calls[i].tools

C2_Witness ==
    /\ handler = "app" /\ ~use_web_search /\ pc = "done"
    /\ primary = "failure" /\ result.kind = "transport"
    /\ \E i \in DOMAIN calls : calls[i].kind = "gemini"

\* C3: DuckDuckGo is attempted only after Wikipedia was attempted in the same
\* request and returned no answer: every DuckDuckGo call comes after the
\* Wikipedia search call, and never after a non-empty Wikipedia answer.
C3_DdgOnlyAfterWikiFailed ==
    /\ \A j \in DOMAIN stages : stages[j] = "ddg" =>
          /\ \E i \in 1..(j - 1) : stages[i] = "wiki"
          /\ ~(wiki_ans # None /\ wiki_ans # "")
    /\ \A j \in DOMAIN calls : calls[j].kind = "ddg" =>
          \E i \in 1..(j - 1) : calls[i].kind = "wiki_search"

C3_Witness ==
    /\ pc = "done" /\ Invoked("ddg") /\ Invoked("wiki")
    /\ ddg_ans # None /\ wiki_ans = ""

\* C4: a Search request whose primary call failed and whose two fallback
\* providers both returned no answer gets status 200 with the fixed "could
\* not find a confident answer" text and an empty source list.
C4_BothFallbacksEmptyGivesHonestFailure ==
    ( /\ handler = "app" /\ pc = "done" /\ use_web_search /\ primary = "failure"
      /\ Invoked("wiki") /\ wiki_ans \in {None, ""}
      /\ Invoked("ddg") /\ ddg_ans \in {None, ""} )
    => response =
         [status |-> 200,
          body |-> [answer |-> "I tried searching but couldn't find a confident answer. I'd rather be honest than guess wrong! Could you clarify?",
                    sources |-> <<>>]]

C4_Witness ==
    /\ handler = "app" /\ pc = "done" /\ use_web_search /\ primary = "failure"
    /\ Invoked("wiki") /\ wiki_ans \in {None, ""}
    /\ Invoked("ddg") /\ ddg_ans \in {None, ""}
    /\ response.status = 200

\* C5: with the credential present, a request that reached the primary call
\* always ends in a success-shaped response (status 200 with an answer and a
\* source list), whatever the providers did.
C5_ProviderFailuresAreSuccessShaped ==
    (pc = "done" /\ gemini_api_key # "" /\ Invoked("primary")) =>
        /\ response.status = 200
        /\ DOMAIN response.body = {"answer", "sources"}

\* C6: with the credential absent the request ends with a server-error
\* status and no outbound call was made.
C6_MissingKeyIsServerErrorWithoutCalls ==
    (pc = "done" /\ gemini_api_key = "") =>
        /\ response.status = 500
        /\ calls = <<>>

\* C7: every outbound call carries a timeout, so no request stays blocked in
\* a call whose peer never replies.
C7_EveryCallHasTimeout ==
    /\ \A i \in DOMAIN calls : calls[i].timeout > 0
    /\ pc # "blocked"

FirstIndex(s, u) == Min({ i \in DOMAIN s : s[i].uri = u })
LastIndex(s, u) == CHOOSE i \in DOMAIN s : s[i].uri = u /\ \A k \in DOMAIN s : s[k].uri = u => k <= i

\* The citations of the answering candidate that the handler keeps as sources.
CitationsKept ==
    IF ~result.hasCandidates THEN <<>>
    ELSE IF handler = "app"
    THEN SelectSeq(result.candidates[1].chunks \o result.candidates[1].attributions,
                   LAMBDA c : c.uri # "" /\ c.title # "")
    ELSE SelectSeq(result.candidates[1].attributions, LAMBDA c : c.uri # "")

\* C8: on the primary success path the returned source list has exactly one
\* entry per distinct uri of the kept citations, in the order in which each
\* uri was first seen, with the title of the last citation of that uri.
C8_DedupFirstSeenOrderLastTitle ==
    (pc = "done" /\ primary = "success" /\ (handler = "main" \/ use_web_search)) =>
        LET in  == CitationsKept
            out == response.body.sources
        IN  /\ sources = in
            /\ \A i \in DOMAIN in :
                  Cardinality({ k \in DOMAIN out : out[k].uri = in[i].uri }) = 1
            /\ \A k \in DOMAIN out : \E i \in DOMAIN in : in[i].uri = out[k].uri
            /\ \A k, l \in DOMAIN out :
                  k < l => FirstIndex(in, out[k].uri) < FirstIndex(in, out[l].uri)
            /\ \A k \in DOMAIN out : out[k].title = in[LastIndex(in, out[k].uri)].title

C8_Witness ==
    /\ handler = "app" /\ pc = "done" /\ primary = "success" /\ use_web_search
    /\ Len(sources) = 3
    /\ sources[1].uri = sources[3].uri /\ sources[1].title # sources[3].title
    /\ sources[2].uri # sources[1].uri
    /\ Len(response.body.sources) = 2

\* C9: the source list of every response holds at most one entry per uri.
C9_ResponseSourcesUniqueByUri ==
    (pc = "done" /\ "sources" \in DOMAIN response.body) =>
        \A k, l \in DOMAIN response.body.sources :
            k # l => response.body.sources[k].uri # response.body.sources[l].uri

\* C10: the text returned by the crawler is never longer than the cap.
C10_CrawledTextWithinCap ==
    crawled_text # None => Len(crawled_text) <= CrawlCap

\* C11: the crawler never raises.  After a failed fetch (an error or a peer
\* that never replies) the crawled text is a description that starts with
\* the offending URL, no error response is produced, and the request goes on
\* to the primary call with the text embedded as the link context, in the
\* same way as after a successful crawl.
C11_CrawlFailureBecomesContext ==
    (handler = "app" /\ crawl_reply # "none") =>
        /\ crawl_reply \in {"error", "hang"} =>
              StartsAt(crawled_text, 1, "Error crawling " \o found_url \o ": ")
        /\ crawled_text # None
        /\ context_injection =
              "\n\nCONTEXT FROM LINK (" \o found_url \o "):\n" \o crawled_text
                  \o "\n\n(User asked about this link.)"
        /\ pc \in {"primary", "wiki", "ddg", "done", "blocked"}
        /\ response.status \in {0, 200}
        /\ pc # "primary" =>
              \E i \in DOMAIN calls :
                  /\ calls[i].kind = "gemini"
                  /\ calls[i].arg = BasePersona \o context_injection
                         \o (IF use_web_search THEN SearchBlock ELSE MemoryBlock)

C11_Witness ==
    /\ handler = "app" /\ crawl_reply = "error" /\ pc = "done"
    /\ primary = "success" /\ response.status = 200
    /\ \E i \in DOMAIN calls : calls[i].kind = "gemini"

\* The first candidate is missing, policy-blocked or without a text part.
FirstCandidateUnusable ==
    /\ result.kind = "json"
    /\ \/ ~result.hasCandidates
       \/ result.candidates = <<>>
       \/ result.candidates[1].finishReason = "RECITATION"
       \/ result.candidates[1].text = None

\* C12: in both modes a reply whose candidate is policy-blocked (RECITATION),
\* whose candidate list is empty or absent, or whose candidate has no text
\* part ends in the failure path of the primary call.
C12_UnusableReplyIsPrimaryFailure ==
    (handler = "app" /\ primary # "none" /\ FirstCandidateUnusable) =>
        primary = "failure"

GoodCandidate(c) == c.finishReason # "RECITATION" /\ c.text # None

\* C13 as claimed: in Search mode the primary call succeeds whenever some
\* candidate of the reply, at any position, is not policy-blocked and has a
\* text part, and that candidate's text is the answer.
C13_AnyGoodCandidateSucceeds ==
    ( /\ handler = "app" /\ use_web_search /\ primary # "none"
      /\ result.kind = "json" /\ result.hasCandidates
      /\ \E i \in DOMAIN result.candidates : GoodCandidate(result.candidates[i]) )
    => /\ primary = "success"
       /\ \E i \in DOMAIN result.candidates :
             /\ GoodCandidate(result.candidates[i])
             /\ response.body.answer = result.candidates[i].text

\* C13 as amended: in Search mode the primary call succeeds whenever the
\* first candidate of the reply is not policy-blocked and has a text part
\* (an empty text included); its text is the answer and no fallback runs.
C13_FirstGoodCandidateSucceeds ==
    ( /\ handler = "app" /\ use_web_search /\ primary # "none"
      /\ result.kind = "json" /\ result.hasCandidates
      /\ result.candidates # <<>> /\ GoodCandidate(result.candidates[1]) )
    => /\ primary = "success" /\ pc = "done"
       /\ response.status = 200
       /\ response.body.answer = result.candidates[1].text
       /\ ~Invoked("wiki") /\ ~Invoked("ddg") /\ ~FallbackCalled

C13_Witness ==
    /\ handler = "app" /\ use_web_search /\ pc = "done" /\ primary = "success"
    /\ Len(result.candidates) = 2
    /\ response.body.answer = result.candidates[1].text

\* The first URL of each message text a request of the model can carry, as
\* Python's re.search returns it for the pattern of extract_url.
FirstUrlIn(text) ==
    IF text = "see http://a.io/x now" THEN "http://a.io/x"
    ELSE IF text = "try https://b.io, please" THEN "https://b.io,"
    ELSE IF text = LongMessage THEN LongUrl
    ELSE None

CrawlCalls == { i \in DOMAIN calls : calls[i].kind = "crawl" }

\* C14: in a request of src/app.py that passed the credential check, URL
\* detection reads only the most recent user message ("" when there is
\* none): the crawler is invoked if and only if that message holds a URL,
\* and with exactly its first match; URLs of earlier user messages and of
\* assistant messages never trigger a crawl.
C14_CrawlIffLastUserMessageHasUrl ==
    (handler = "app" /\ gemini_api_key # "" /\ pc # "start") =>
        LET users == { i \in DOMAIN history : history[i].role = "user" }
            msg   == IF users = {} THEN ""
                     ELSE history[CHOOSE i \in users : \A k \in users : k <= i].content
            url   == FirstUrlIn(msg)
        IN  /\ last_user_msg = msg
            /\ found_url = url
            /\ \A i \in CrawlCalls : calls[i].arg = url /\ url # None
            /\ pc = "crawl" => (url # None /\ CrawlCalls = {})
            /\ pc # "crawl" => (CrawlCalls # {} <=> url # None)

C14_Witness ==
    /\ handler = "app" /\ pc = "done" /\ Len(history) = 2
    /\ history[1] = [role |-> "user", content |-> "see http://a.io/x now"]
    /\ history[2] = [role |-> "assistant", content |-> "try https://b.io, please"]
    /\ \E i \in CrawlCalls : calls[i].arg = "http://a.io/x"

GeminiCalls == { i \in DOMAIN calls : calls[i].kind = "gemini" }

\* C15: the directive of the primary call of src/app.py is the persona
\* block, then the "context from link" block (present exactly when a URL was
\* detected and crawled, quoting the URL and the crawled text), then the
\* block of the request's mode; the crawl is over before the primary call.
C15_DirectiveIsPersonaContextMode ==
    handler = "app" =>
        \A i \in GeminiCalls :
            /\ calls[i].arg =
                  BasePersona
                  \o (IF found_url # None
                      THEN "\n\nCONTEXT FROM LINK (" \o found_url \o "):\n" \o crawled_text
                               \o "\n\n(User asked about this link.)"
                      ELSE "")
                  \o (IF use_web_search THEN SearchBlock ELSE MemoryBlock)
            /\ found_url # None <=> CrawlCalls # {}
            /\ found_url # None <=> crawled_text # None
            /\ \A j \in CrawlCalls : j < i

C15_Witness ==
    /\ handler = "app" /\ pc = "done" /\ ~use_web_search
    /\ found_url = "http://a.io/x" /\ crawl_reply = "ok"
    /\ GeminiCalls # {} /\ CrawlCalls # {}

CountStage(stage) == Cardinality({ i \in DOMAIN stages : stages[i] = stage })
CountCalls(kind)  == Cardinality({ i \in DOMAIN calls : calls[i].kind = kind })

\* C16: no stage is retried.  Within a request each of crawl, primary call,
\* Wikipedia fallback and DuckDuckGo fallback is entered at most once, and
\* each outbound call of a stage is issued at most once.
C16_NoStageRetried ==
    /\ \A st \in {"crawl", "primary", "wiki", "ddg"} : CountStage(st) <= 1
    /\ \A k \in {"crawl", "gemini", "wiki_search", "wiki_gemini", "ddg"} : CountCalls(k) <= 1
    /\ \A i, j \in DOMAIN calls :
          (calls[i].kind = "wiki_summary" /\ calls[j].kind = "wiki_summary" /\ i # j)
              => calls[i].arg # calls[j].arg

C16_Witness ==
    /\ pc = "done" /\ stages = <<"crawl", "primary", "wiki", "ddg">>
    /\ crawl_reply = "error" /\ primary = "failure"
    /\ wiki_exit = "search_failed" /\ ddg_reply.kind = "error"

\* C17: in the Wikipedia fallback an exception at the search call, at a
\* summary call or at the synthesis call ends the provider with no answer and
\* an empty source list, and DuckDuckGo is attempted next; an empty result
\* list ends it the same way without any summary or synthesis call; the
\* provider's answer is returned only when the synthesized text is non-empty.
C17_WikiFailureMeansNoAnswerThenDdg ==
    (handler = "app" /\ wiki_exit # "none") =>
        /\ wiki_exit \in {"search_failed", "summary_failed", "synthesis_failed", "no_results"}
              => (wiki_ans = None /\ wiki_src = <<>>)
        /\ wiki_exit = "search_failed"
              => (CountCalls("wiki_summary") = 0 /\ CountCalls("wiki_gemini") = 0)
        /\ wiki_exit = "no_results"
              => (CountCalls("wiki_summary") = 0 /\ CountCalls("wiki_gemini") = 0)
        /\ wiki_exit = "summary_failed"
              => (CountCalls("wiki_summary") >= 1 /\ CountCalls("wiki_gemini") = 0)
        /\ wiki_exit = "synthesis_failed" => CountCalls("wiki_gemini") = 1
        /\ wiki_ans \in {None, ""}
              => /\ pc \in {"ddg", "done"}
                 /\ pc = "done" => (Invoked("ddg") /\ CountCalls("ddg") = 1)
        /\ wiki_ans \notin {None, ""}
              => /\ wiki_exit = "returned" /\ pc = "done" /\ ~Invoked("ddg")
                 /\ response = [status |-> 200,
                                body |-> [answer |-> wiki_ans, sources |-> wiki_src]]

C17_Witness ==
    /\ handler = "app" /\ pc = "done" /\ wiki_exit = "summary_failed"
    /\ CountCalls("wiki_summary") = 2 /\ Invoked("ddg")

DdgSummary(heading, text) ==
    "Here is a summary from DuckDuckGo:\n\n**" \o heading \o "**\n" \o text

\* C18: in the DuckDuckGo fallback the answer is built from the abstract
\* when it is non-empty, otherwise from the text of the first related topic
\* when that entry has one; later related topics are never read; with an
\* empty abstract and no usable first topic there is no answer; an answer
\* comes with exactly one source, whose uri is the abstract URL or the first
\* topic's URL according to which text was used.
C18_DdgAbstractThenFirstTopic ==
    (handler = "app" /\ ddg_reply.kind = "ok") =>
        LET d == ddg_reply
            firstHasText == d.related # <<>> /\ d.related[1].text \notin {None, ""}
        IN  /\ d.abstract # "" =>
                  /\ ddg_ans = DdgSummary(d.heading, d.abstract)
                  /\ ddg_src = <<[title |-> "DuckDuckGo: " \o d.heading, uri |-> d.abstractURL]>>
            /\ (d.abstract = "" /\ firstHasText) =>
                  /\ ddg_ans = DdgSummary(d.heading, d.related[1].text)
                  /\ ddg_src = <<[title |-> "DuckDuckGo: " \o d.heading,
                                  uri |-> d.related[1].firstURL]>>
            /\ (d.abstract = "" /\ ~firstHasText) =>
                  (ddg_ans = None /\ ddg_src = <<>>)
            /\ ddg_ans # None => Len(ddg_src) = 1

C18_Witness ==
    /\ handler = "app" /\ pc = "done" /\ ddg_reply.kind = "ok"
    /\ ddg_reply.abstract = "" /\ Len(ddg_reply.related) >= 2
    /\ ddg_reply.related[1].text = "A related topic"
    /\ ddg_src # <<>> /\ ddg_src[1].uri = "https://duckduckgo.com/t"

\* C19: the source list of a response of src/app.py holds only sources of
\* the stage whose answer is returned; sources of a stage that ended without
\* an answer never appear, and both canned replies have an empty list.
C19_SourcesComeFromAnsweringStage ==
    (handler = "app" /\ pc = "done" /\ response.status = 200) =>
        LET out  == response.body.sources
            last == stages[Len(stages)]
        IN  /\ (last = "primary" /\ primary = "success") =>
                  \A k \in DOMAIN out : \E i \in DOMAIN CitationsKept : CitationsKept[i] = out[k]
            /\ (last = "primary" /\ primary = "failure") =>
                  /\ out = <<>>
                  /\ response.body.answer = "I'm having a little trouble connecting right now. Mind trying again?"
            /\ last = "wiki" =>
                  (wiki_ans \notin {None, ""} /\ response.body.answer = wiki_ans /\ out = wiki_src)
            /\ (last = "ddg" /\ ddg_ans \notin {None, ""}) =>
                  (response.body.answer = ddg_ans /\ out = ddg_src)
            /\ (last = "ddg" /\ ddg_ans \in {None, ""}) =>
                  /\ out = <<>>
                  /\ response.body.answer = "I tried searching but couldn't find a confident answer. I'd rather be honest than guess wrong! Could you clarify?"
            /\ wiki_ans \in {None, ""} =>
                  \A k \in DOMAIN out : \A i \in DOMAIN wiki_src : out[k] # wiki_src[i]

C19_Witness ==
    /\ handler = "app" /\ pc = "done" /\ response.status = 200
    /\ wiki_ans = "" /\ wiki_src # <<>>
    /\ ddg_ans \notin {None, ""} /\ response.body.sources = ddg_src

====
